---- MODULE Spec2Model ----
(***************************************************************************)
(* Model of the selective event tracer (MemoryTracer plugin) and of the    *)
(* module / debug-symbol resolver (s2etools::Library).                     *)
(*                                                                         *)
(* uint64_t values whose width matters (addresses, stack pointers,         *)
(* program counters, load and image bases) are kept at their full 64 bits  *)
(* as four 16-bit limbs, least significant first: <<l0, l1, l2, l3>>.      *)
(***************************************************************************)
EXTENDS Integers, Sequences, FiniteSets, TLC

VARIABLES
    \* ---- MemoryTracer (src/qemu/s2e/Plugins/ExecutionTracers/MemoryTracer.cpp)
    initialized,          \* initialize() has run
    m_monitorStack,
    m_catchAbove,
    m_timeTrigger,
    m_elapsedTics,
    m_monitorMemory,
    m_monitorPageFaults,
    m_monitorTlbMisses,
    timerConnected,       \* m_timerConnection is connected to CorePlugin::onTimer
    connMem,              \* slots connected to CorePlugin::onDataMemoryAccess
    connPF,               \* slots connected to CorePlugin::onPageFault
    connTlb,              \* slots connected to CorePlugin::onTlbMiss
    sinkCount,            \* number of m_tracer->writeData calls so far
    written,              \* the writeData calls of the latest signal emission
    lastEvent,            \* the latest signal emitted by the core plugin
    enableCalls,          \* number of enableTracing() calls so far
    timerCalls,           \* number of onTimer() calls so far
    tickEmits,            \* number of CorePlugin::onTimer emissions so far
    \* ---- Library (src/tools/lib/BinaryReaders/Library.cpp)
    KernelStart,          \* the "os" command line option
    m_libpath,
    m_libraries,
    m_badLibraries,
    files,                \* the paths std::ifstream can open
    createCalls,          \* ExecutableFile::create calls so far, per path
    firstOutcome,         \* outcome of the first addLibraryAbs call, per path
    parseFailed,          \* the paths ExecutableFile::create returned NULL for
    lastCall,             \* the latest call of the Library interface
    \* ---- calls of the pure functions
    pureCall,             \* the call of a pure function, with its arguments
    pureRet,              \* what it returned, <<>> before it returns
    \* ---- two contexts calling addLibraryAbs on one Library
    ctx,                  \* per context: the statement it is at and its locals
    allocated,            \* the objects ExecutableFile::create has returned
    \* ---- Library::~Library
    destroyed,            \* the destructor has run
    deleted               \* the objects the destructor deleted

tracerVars == <<initialized, m_monitorStack, m_catchAbove, m_timeTrigger,
                m_elapsedTics, m_monitorMemory, m_monitorPageFaults,
                m_monitorTlbMisses, timerConnected, connMem, connPF, connTlb,
                sinkCount, written, lastEvent, enableCalls, timerCalls,
                tickEmits>>

libVars == <<m_libpath, m_libraries, m_badLibraries, files, createCalls,
             firstOutcome, parseFailed, lastCall>>

pureVars == <<pureCall, pureRet>>
concVars == <<ctx, allocated>>
dtorVars == <<destroyed, deleted>>

vars == <<tracerVars, libVars, pureVars, concVars, dtorVars, KernelStart>>

----------------------------------------------------------------------------
(* uint64_t arithmetic on four 16-bit limbs.                               *)

Limb == 2^16

U64(h3, h2, h1, h0) == <<h0, h1, h2, h3>>

Zero64 == U64(0, 0, 0, 0)

\* a < b, unsigned
U64Lt(a, b) ==
    \E i \in 1..4 : a[i] < b[i] /\ \A j \in (i+1)..4 : a[j] = b[j]

\* (a + b) mod 2^64
U64Add(a, b) ==
    LET s1 == a[1] + b[1]
        s2 == a[2] + b[2] + (s1 \div Limb)
        s3 == a[3] + b[3] + (s2 \div Limb)
        s4 == a[4] + b[4] + (s3 \div Limb)
    IN  <<s1 % Limb, s2 % Limb, s3 % Limb, s4 % Limb>>

\* (a - b) mod 2^64
U64Sub(a, b) ==
    LET d1 == a[1] - b[1]
        d2 == a[2] - b[2] - (IF d1 < 0 THEN 1 ELSE 0)
        d3 == a[3] - b[3] - (IF d2 < 0 THEN 1 ELSE 0)
        d4 == a[4] - b[4] - (IF d3 < 0 THEN 1 ELSE 0)
    IN  <<d1 % Limb, d2 % Limb, d3 % Limb, d4 % Limb>>

RECURSIVE BitAnd(_, _)
BitAnd(x, y) ==
    IF x = 0 \/ y = 0 THEN 0
    ELSE (x % 2) * (y % 2) + 2 * BitAnd(x \div 2, y \div 2)

\* a & b
U64And(a, b) == [i \in 1..4 |-> BitAnd(a[i], b[i])]

----------------------------------------------------------------------------
(* Bounds of the model and the input sets the calls are drawn from.        *)

MaxTrigger == 2     \* largest configured timeTrigger
MaxTicks == 4       \* CorePlugin::onTimer emissions in a run
MaxEvents == 2      \* memory / TLB / page fault emissions in a run

\* klee::ref<klee::Expr>: a ConstantExpr of a width, or a symbolic expression
ConstExpr(v, w) == [isConst |-> TRUE, val |-> v, width |-> w]
SymExpr(w) == [isConst |-> FALSE, val |-> Zero64, width |-> w]

CatchAboveSet == {Zero64, U64(0, 0, 0, \h1000)}

MemEvent(address, value, sp, pc, isWrite, isIO) ==
    [kind |-> "mem", address |-> address, value |-> value, sp |-> sp,
     pc |-> pc, isWrite |-> isWrite, isIO |-> isIO]

FaultEvent(kind, addr, sp, pc, isWrite) ==
    [kind |-> kind, addr |-> addr, sp |-> sp, pc |-> pc, isWrite |-> isWrite]

SpLow == U64(0, 0, 0, \h3F00)
SpHigh == U64(0, 0, \h7FFD, \hE010)
PcUser == U64(0, 0, \h0040, \h1000)
PcKernel == U64(0, 0, \h8000, \h0010)

\* The memory accesses the core plugin signals: symbolic and concrete
\* addresses and values, addresses below and above the floor, in the stack
\* pointer's region and outside it, of several widths, reads and writes.
MemEventSet ==
    {MemEvent(SymExpr(32), ConstExpr(U64(0, 0, 0, \h42), 8),
              SpLow, PcUser, TRUE, FALSE),
     MemEvent(ConstExpr(U64(0, 0, 0, \h2000), 32), SymExpr(32),
              SpLow, PcUser, TRUE, FALSE),
     MemEvent(SymExpr(32), SymExpr(8), SpHigh, PcKernel, FALSE, FALSE),
     MemEvent(ConstExpr(U64(0, 0, 0, \h2000), 32),
              ConstExpr(U64(0, 0, 0, \h42), 8), SpLow, PcUser, TRUE, FALSE),
     MemEvent(ConstExpr(U64(0, 0, 0, \h2000), 32),
              ConstExpr(U64(0, 0, 0, \h42), 8), SpHigh, PcKernel, FALSE, TRUE),
     MemEvent(ConstExpr(U64(0, 0, 0, \h0800), 32),
              ConstExpr(U64(0, 0, \h1234, \h5678), 32),
              SpLow, PcUser, FALSE, FALSE),
     MemEvent(ConstExpr(U64(0, 0, \h7FFD, \hE000), 32),
              ConstExpr(U64(0, 0, \h1234, \h5678), 32),
              SpHigh, PcUser, TRUE, TRUE),
     MemEvent(ConstExpr(U64(0, 0, \h7FFD, \hE000), 64),
              ConstExpr(U64(0, 0, 0, \h1234), 16),
              SpLow, PcKernel, FALSE, FALSE)}

FaultSet(kind) ==
    {FaultEvent(kind, U64(0, 0, 0, \h0800), SpLow, PcUser, TRUE),
     FaultEvent(kind, U64(0, 0, 0, \h0800), SpHigh, PcKernel, FALSE),
     FaultEvent(kind, U64(0, 0, \h7FFD, \hE000), SpHigh, PcUser, FALSE),
     FaultEvent(kind, U64(0, 0, \h7FFD, \hE000), SpLow, PcKernel, TRUE)}

----------------------------------------------------------------------------
(* MemoryTracer                                                            *)

\* The mask ~0x3FFFF of decideTracing: 0x3FFFF is an int, so ~0x3FFFF is the
\* int -262144, converted to uint64_t for the & : 0xFFFFFFFFFFFC0000.
StackMask == U64(\hFFFF, \hFFFF, \hFFFC, 0)

\* decideTracing with the floor test written <= : an address equal to the
\* floor is skipped too.
decideTracingFloorInclusive(sp, addr) ==
    IF U64Lt(addr, m_catchAbove) \/ addr = m_catchAbove THEN FALSE
    ELSE IF m_monitorStack
         THEN U64And(sp, StackMask) = U64And(addr, StackMask)
         ELSE TRUE

\* bool MemoryTracer::decideTracing(state, addr, data) const, sp = state->getSp()
decideTracing(sp, addr) ==
    IF U64Lt(addr, m_catchAbove) THEN FALSE
    ELSE IF m_monitorStack
         THEN U64And(sp, StackMask) = U64And(addr, StackMask)
         ELSE TRUE

\* klee::Expr::getMinBytesForWidth
getMinBytesForWidth(w) == (w + 7) \div 8

EXECTRACE_MEM_WRITE == 1
EXECTRACE_MEM_IO == 2

BoolInt(b) == IF b THEN 1 ELSE 0

\* The S2EExecutionState a callback was handed, as far as the tracer reads
\* it (getSp, getPc); writeData receives it as its first argument.
StateOf(ev) == [sp |-> ev.sp, pc |-> ev.pc]

\* onDataMemoryAccess taking the record's size from the width of the address.
onDataMemoryAccessAddressWidth(ev) ==
    IF ~ev.address.isConst \/ ~ev.value.isConst THEN <<>>
    ELSE IF decideTracing(ev.sp, ev.address.val)
         THEN << [kind |-> "TRACE_MEMORY",
                  state |-> StateOf(ev),
                  pc |-> ev.pc,
                  address |-> ev.address.val,
                  value |-> ev.value.val,
                  size |-> getMinBytesForWidth(ev.address.width),
                  flags |-> BoolInt(ev.isWrite) * EXECTRACE_MEM_WRITE
                            + BoolInt(ev.isIO) * EXECTRACE_MEM_IO] >>
         ELSE <<>>

\* onDataMemoryAccess without the test that the value is a ConstantExpr.
onDataMemoryAccessAnyValue(ev) ==
    IF ~ev.address.isConst THEN <<>>
    ELSE IF decideTracing(ev.sp, ev.address.val)
         THEN << [kind |-> "TRACE_MEMORY",
                  state |-> StateOf(ev),
                  pc |-> ev.pc,
                  address |-> ev.address.val,
                  value |-> ev.value.val,
                  size |-> getMinBytesForWidth(ev.value.width),
                  flags |-> BoolInt(ev.isWrite) * EXECTRACE_MEM_WRITE
                            + BoolInt(ev.isIO) * EXECTRACE_MEM_IO] >>
         ELSE <<>>

\* One call of MemoryTracer::onDataMemoryAccess: the writeData calls it makes.
onDataMemoryAccess(ev) ==
    IF ~ev.address.isConst \/ ~ev.value.isConst THEN <<>>
    ELSE IF decideTracing(ev.sp, ev.address.val)
         THEN << [kind |-> "TRACE_MEMORY",
                  state |-> StateOf(ev),
                  pc |-> ev.pc,
                  address |-> ev.address.val,
                  value |-> ev.value.val,
                  size |-> getMinBytesForWidth(ev.value.width),
                  flags |-> BoolInt(ev.isWrite) * EXECTRACE_MEM_WRITE
                            + BoolInt(ev.isIO) * EXECTRACE_MEM_IO] >>
         ELSE <<>>

\* onTlbMiss passing its address through decideTracing first.
onTlbMissFiltered(ev) ==
    IF decideTracing(ev.sp, ev.addr)
    THEN << [kind |-> "TRACE_TLBMISS", state |-> StateOf(ev), pc |-> ev.pc,
             address |-> ev.addr,
             isWrite |-> ev.isWrite] >>
    ELSE <<>>

\* One call of MemoryTracer::onTlbMiss: the writeData calls it makes.
onTlbMiss(ev) ==
    << [kind |-> "TRACE_TLBMISS", state |-> StateOf(ev), pc |-> ev.pc,
             address |-> ev.addr,
        isWrite |-> ev.isWrite] >>

\* One call of MemoryTracer::onPageFault: the writeData calls it makes.
onPageFault(ev) ==
    << [kind |-> "TRACE_PAGEFAULT", state |-> StateOf(ev), pc |-> ev.pc,
             address |-> ev.addr,
        isWrite |-> ev.isWrite] >>

\* enableTracing connecting the page fault callback under the TLB miss flag
\* and the TLB miss callback under the page fault flag.
enableTracingSwapped(monMem, monPF, monTlb) ==
    /\ connMem' = connMem + BoolInt(monMem)
    /\ connPF' = connPF + BoolInt(monTlb)
    /\ connTlb' = connTlb + BoolInt(monPF)
    /\ enableCalls' = enableCalls + 1

\* MemoryTracer::enableTracing, reading the three monitor flags
enableTracing(monMem, monPF, monTlb) ==
    /\ connMem' = connMem + BoolInt(monMem)
    /\ connPF' = connPF + BoolInt(monPF)
    /\ connTlb' = connTlb + BoolInt(monTlb)
    /\ enableCalls' = enableCalls + 1

\* MemoryTracer::initialize, the configuration read from the config file
initialize(monStack, catchAbove, timeTrigger, monMem, monPF, monTlb) ==
    /\ ~initialized
    /\ initialized' = TRUE
    /\ m_monitorStack' = monStack
    /\ m_catchAbove' = catchAbove
    /\ m_timeTrigger' = timeTrigger
    /\ m_elapsedTics' = 0
    /\ m_monitorMemory' = monMem
    /\ m_monitorPageFaults' = monPF
    /\ m_monitorTlbMisses' = monTlb
    /\ IF timeTrigger = 0
       THEN enableTracing(monMem, monPF, monTlb) /\ UNCHANGED timerConnected
       ELSE /\ timerConnected' = TRUE
            /\ UNCHANGED <<connMem, connPF, connTlb, enableCalls>>
    /\ UNCHANGED <<sinkCount, written, lastEvent, timerCalls, tickEmits>>

\* onTimer that leaves m_timerConnection connected.
onTimerKeepsConnection ==
    /\ timerCalls' = timerCalls + 1
    /\ m_elapsedTics' = m_elapsedTics + 1
    /\ IF m_elapsedTics < m_timeTrigger
       THEN UNCHANGED <<connMem, connPF, connTlb, enableCalls, timerConnected>>
       ELSE /\ enableTracing(m_monitorMemory, m_monitorPageFaults,
                             m_monitorTlbMisses)
            /\ UNCHANGED timerConnected

\* onTimer comparing after the increment: ++m_elapsedTics < m_timeTrigger.
onTimerPreIncrement ==
    /\ timerCalls' = timerCalls + 1
    /\ m_elapsedTics' = m_elapsedTics + 1
    /\ IF m_elapsedTics + 1 < m_timeTrigger
       THEN UNCHANGED <<connMem, connPF, connTlb, enableCalls, timerConnected>>
       ELSE /\ enableTracing(m_monitorMemory, m_monitorPageFaults,
                             m_monitorTlbMisses)
            /\ timerConnected' = FALSE

\* onTimer returning early also when the counter equals the trigger:
\* m_elapsedTics++ <= m_timeTrigger.
onTimerInclusive ==
    /\ timerCalls' = timerCalls + 1
    /\ m_elapsedTics' = m_elapsedTics + 1
    /\ IF m_elapsedTics <= m_timeTrigger
       THEN UNCHANGED <<connMem, connPF, connTlb, enableCalls, timerConnected>>
       ELSE /\ enableTracing(m_monitorMemory, m_monitorPageFaults,
                             m_monitorTlbMisses)
            /\ timerConnected' = FALSE

\* MemoryTracer::onTimer
onTimer ==
    /\ timerCalls' = timerCalls + 1
    /\ m_elapsedTics' = m_elapsedTics + 1
    /\ IF m_elapsedTics < m_timeTrigger
       THEN UNCHANGED <<connMem, connPF, connTlb, enableCalls, timerConnected>>
       ELSE /\ enableTracing(m_monitorMemory, m_monitorPageFaults,
                             m_monitorTlbMisses)
            /\ timerConnected' = FALSE

\* CorePlugin::onTimer is emitted: the connected slot, if any, runs.
EmitTimer ==
    /\ tickEmits < MaxTicks
    /\ tickEmits' = tickEmits + 1
    /\ IF timerConnected
       THEN onTimer
       ELSE UNCHANGED <<m_elapsedTics, timerCalls, connMem, connPF, connTlb,
                        enableCalls, timerConnected>>
    /\ UNCHANGED <<initialized, m_monitorStack, m_catchAbove, m_timeTrigger,
                   m_monitorMemory, m_monitorPageFaults, m_monitorTlbMisses,
                   sinkCount, written, lastEvent>>

RECURSIVE Repeat(_, _)
Repeat(s, n) == IF n = 0 THEN <<>> ELSE s \o Repeat(s, n - 1)

\* A signal of the core plugin is emitted: each connected slot runs once.
Emit(ev, slots, recs) ==
    /\ lastEvent.seq < MaxEvents
    /\ lastEvent' = [kind |-> ev.kind, seq |-> lastEvent.seq + 1,
                     slots |-> slots, ev |-> ev]
    /\ written' = Repeat(recs, slots)
    /\ sinkCount' = sinkCount + Len(written')
    /\ UNCHANGED <<initialized, m_monitorStack, m_catchAbove, m_timeTrigger,
                   m_elapsedTics, m_monitorMemory, m_monitorPageFaults,
                   m_monitorTlbMisses, timerConnected, connMem, connPF,
                   connTlb, enableCalls, timerCalls, tickEmits>>

EmitDataMemoryAccess ==
    \E ev \in MemEventSet : Emit(ev, connMem, onDataMemoryAccess(ev))

EmitTlbMiss ==
    \E ev \in FaultSet("tlb") : Emit(ev, connTlb, onTlbMiss(ev))

EmitPageFault ==
    \E ev \in FaultSet("pf") : Emit(ev, connPF, onPageFault(ev))

Initialize ==
    \E monStack \in BOOLEAN, catchAbove \in CatchAboveSet,
       timeTrigger \in 0..MaxTrigger,
       monMem \in BOOLEAN, monPF \in BOOLEAN, monTlb \in BOOLEAN :
        initialize(monStack, catchAbove, timeTrigger, monMem, monPF, monTlb)

NoEvent == [kind |-> "none", seq |-> 0, slots |-> 0, ev |-> [kind |-> "none"]]

\* MemoryTracer::MemoryTracer: nothing is connected, nothing is written
TracerConstructed ==
    /\ initialized = FALSE
    /\ m_monitorStack = FALSE
    /\ m_catchAbove = Zero64
    /\ m_timeTrigger = 0
    /\ m_elapsedTics = 0
    /\ m_monitorMemory = FALSE
    /\ m_monitorPageFaults = FALSE
    /\ m_monitorTlbMisses = FALSE
    /\ timerConnected = FALSE
    /\ connMem = 0
    /\ connPF = 0
    /\ connTlb = 0
    /\ sinkCount = 0
    /\ written = <<>>
    /\ lastEvent = NoEvent
    /\ enableCalls = 0
    /\ timerCalls = 0
    /\ tickEmits = 0

----------------------------------------------------------------------------
(* Library.  A std::string is a sequence of one-character strings.         *)

MaxDirs == 2        \* entries of m_libpath in a run

DefaultKernelStart == U64(0, 0, \h8000, 0)

\* translatePid with the boundary test written > : the boundary address
\* itself is left to the process.
translatePidExclusive(pid, pc) ==
    IF U64Lt(KernelStart, pc) THEN Zero64 ELSE pid

\* uint64_t Library::translatePid(pid, pc)
translatePid(pid, pc) ==
    IF ~U64Lt(pc, KernelStart) THEN Zero64 ELSE pid

npos == -1

\* s.find(':', prev): the first index >= prev (from 0) holding ':', or npos
StrFind(s, prev) ==
    LET hits == {i \in prev..(Len(s) - 1) : s[i + 1] = ":"}
    IN  IF hits = {} THEN npos
        ELSE CHOOSE i \in hits : \A j \in hits : i <= j

\* s.substr(prev, cur - prev); with cur = npos the count reaches past the end
StrSubstr(s, prev, cur) ==
    IF cur = npos THEN SubSeq(s, prev + 1, Len(s))
    ELSE SubSeq(s, prev + 1, cur)

\* the loop of setPath pushing only the segments that are not empty
RECURSIVE setPathLoopSkipEmpty(_, _)
setPathLoopSkipEmpty(s, prev) ==
    LET cur == StrFind(s, prev)
        path == StrSubstr(s, prev, cur)
        here == IF path = <<>> THEN <<>> ELSE <<path>>
    IN  IF cur # npos THEN here \o setPathLoopSkipEmpty(s, cur + 1)
        ELSE here

\* the do-while loop of Library::setPath from position prev: the paths pushed
RECURSIVE setPathLoop(_, _)
setPathLoop(s, prev) ==
    LET cur == StrFind(s, prev)
        path == StrSubstr(s, prev, cur)
    IN  IF cur # npos THEN <<path>> \o setPathLoop(s, cur + 1)
        ELSE <<path>>

\* bool Library::findLibrary(libName, abspath), from the i-th entry on
RECURSIVE findLibraryFrom(_, _)
findLibraryFrom(libName, i) ==
    IF i > Len(m_libpath) THEN [found |-> FALSE, abspath |-> <<>>]
    ELSE LET s == m_libpath[i] \o <<"/">> \o libName
         IN  IF s \in files THEN [found |-> TRUE, abspath |-> s]
             ELSE findLibraryFrom(libName, i + 1)

\* findLibrary that keeps searching after a match: the last match wins.
findLibraryLast(libName) ==
    LET hits == {i \in 1..Len(m_libpath) :
                    (m_libpath[i] \o <<"/">> \o libName) \in files}
    IN  IF hits = {} THEN [found |-> FALSE, abspath |-> <<>>]
        ELSE [found |-> TRUE,
              abspath |-> m_libpath[CHOOSE i \in hits : \A j \in hits : j <= i]
                          \o <<"/">> \o libName]

findLibrary(libName) == findLibraryFrom(libName, 1)

\* s2etools::ExecutableFile::create(path): the parser, which fails on a file
\* it cannot open and may fail on any other; parses is its verdict on the
\* contents.  The object created is named by its path and the call's number.
ExecutableFileCreate(path, parses) ==
    IF parses /\ path \in files THEN << <<path, createCalls[path] + 1>> >>
    ELSE <<>>

NoCall == [called |-> FALSE, path |-> <<>>, ret |-> FALSE]

\* addLibraryAbs without the lookup in m_badLibraries.
addLibraryAbsNoBadLookup(libName, parses) ==
    IF libName \in DOMAIN m_libraries
    THEN [ret |-> TRUE, libraries |-> m_libraries, bad |-> m_badLibraries,
          created |-> <<>>,
          abs |-> [called |-> TRUE, path |-> libName, ret |-> TRUE]]
    ELSE LET exec == ExecutableFileCreate(libName, parses)
         IN  IF exec = <<>>
             THEN [ret |-> FALSE, libraries |-> m_libraries,
                   bad |-> m_badLibraries \cup {libName},
                   created |-> <<libName>>,
                   abs |-> [called |-> TRUE, path |-> libName, ret |-> FALSE]]
             ELSE [ret |-> TRUE,
                   libraries |-> [q \in DOMAIN m_libraries \cup {libName} |->
                                    IF q = libName THEN exec[1]
                                    ELSE m_libraries[q]],
                   bad |-> m_badLibraries,
                   created |-> <<libName>>,
                   abs |-> [called |-> TRUE, path |-> libName, ret |-> TRUE]]

\* addLibraryAbs that does not insert a path that failed to parse into
\* m_badLibraries.
addLibraryAbsNoBadInsert(libName, parses) ==
    IF libName \in DOMAIN m_libraries
    THEN [ret |-> TRUE, libraries |-> m_libraries, bad |-> m_badLibraries,
          created |-> <<>>,
          abs |-> [called |-> TRUE, path |-> libName, ret |-> TRUE]]
    ELSE IF libName \in m_badLibraries
    THEN [ret |-> FALSE, libraries |-> m_libraries, bad |-> m_badLibraries,
          created |-> <<>>,
          abs |-> [called |-> TRUE, path |-> libName, ret |-> FALSE]]
    ELSE LET exec == ExecutableFileCreate(libName, parses)
         IN  IF exec = <<>>
             THEN [ret |-> FALSE, libraries |-> m_libraries,
                   bad |-> m_badLibraries,
                   created |-> <<libName>>,
                   abs |-> [called |-> TRUE, path |-> libName, ret |-> FALSE]]
             ELSE [ret |-> TRUE,
                   libraries |-> [q \in DOMAIN m_libraries \cup {libName} |->
                                    IF q = libName THEN exec[1]
                                    ELSE m_libraries[q]],
                   bad |-> m_badLibraries,
                   created |-> <<libName>>,
                   abs |-> [called |-> TRUE, path |-> libName, ret |-> TRUE]]

\* addLibraryAbs without the lookup in m_libraries.
addLibraryAbsNoLibLookup(libName, parses) ==
    IF libName \in m_badLibraries
    THEN [ret |-> FALSE, libraries |-> m_libraries, bad |-> m_badLibraries,
          created |-> <<>>,
          abs |-> [called |-> TRUE, path |-> libName, ret |-> FALSE]]
    ELSE LET exec == ExecutableFileCreate(libName, parses)
         IN  IF exec = <<>>
             THEN [ret |-> FALSE, libraries |-> m_libraries,
                   bad |-> m_badLibraries \cup {libName},
                   created |-> <<libName>>,
                   abs |-> [called |-> TRUE, path |-> libName, ret |-> FALSE]]
             ELSE [ret |-> TRUE,
                   libraries |-> [q \in DOMAIN m_libraries \cup {libName} |->
                                    IF q = libName THEN exec[1]
                                    ELSE m_libraries[q]],
                   bad |-> m_badLibraries,
                   created |-> <<libName>>,
                   abs |-> [called |-> TRUE, path |-> libName, ret |-> TRUE]]

\* bool Library::addLibraryAbs(libName): the result, the two maps after the
\* call, and the paths handed to the parser
addLibraryAbs(libName, parses) ==
    IF libName \in DOMAIN m_libraries
    THEN [ret |-> TRUE, libraries |-> m_libraries, bad |-> m_badLibraries,
          created |-> <<>>,
          abs |-> [called |-> TRUE, path |-> libName, ret |-> TRUE]]
    ELSE IF libName \in m_badLibraries
    THEN [ret |-> FALSE, libraries |-> m_libraries, bad |-> m_badLibraries,
          created |-> <<>>,
          abs |-> [called |-> TRUE, path |-> libName, ret |-> FALSE]]
    ELSE LET exec == ExecutableFileCreate(libName, parses)
         IN  IF exec = <<>>
             THEN [ret |-> FALSE, libraries |-> m_libraries,
                   bad |-> m_badLibraries \cup {libName},
                   created |-> <<libName>>,
                   abs |-> [called |-> TRUE, path |-> libName, ret |-> FALSE]]
             ELSE [ret |-> TRUE,
                   libraries |-> [q \in DOMAIN m_libraries \cup {libName} |->
                                    IF q = libName THEN exec[1]
                                    ELSE m_libraries[q]],
                   bad |-> m_badLibraries,
                   created |-> <<libName>>,
                   abs |-> [called |-> TRUE, path |-> libName, ret |-> TRUE]]

\* bool Library::addLibrary(libName)
addLibrary(libName, parses) ==
    LET f == findLibrary(libName)
    IN  IF ~f.found
        THEN [ret |-> FALSE, libraries |-> m_libraries, bad |-> m_badLibraries,
              created |-> <<>>, abs |-> NoCall]
        ELSE addLibraryAbs(f.abspath, parses)

\* get that remembers a name findLibrary could not resolve in m_badLibraries.
getCachesUnresolved(name, parses) ==
    LET f == findLibrary(name)
    IN  IF ~f.found
        THEN [handle |-> <<>>, libraries |-> m_libraries,
              bad |-> m_badLibraries \cup {name}, created |-> <<>>,
              abs |-> NoCall]
        ELSE LET a == addLibraryAbs(f.abspath, parses)
             IN  IF ~a.ret
                 THEN [handle |-> <<>>, libraries |-> a.libraries,
                       bad |-> a.bad, created |-> a.created, abs |-> a.abs]
                 ELSE [handle |-> <<a.libraries[f.abspath]>>,
                       libraries |-> a.libraries, bad |-> a.bad,
                       created |-> a.created, abs |-> a.abs]

\* get that, when the first openable candidate fails to parse, goes on to the
\* candidate of a later directory.
getFallThrough(name, parses) ==
    LET f == findLibrary(name)
    IN  IF ~f.found
        THEN [handle |-> <<>>, libraries |-> m_libraries,
              bad |-> m_badLibraries, created |-> <<>>, abs |-> NoCall]
        ELSE LET a == addLibraryAbs(f.abspath, parses)
                 g == findLibraryLast(name)
                 b == addLibraryAbs(g.abspath, TRUE)
             IN  IF a.ret
                 THEN [handle |-> <<a.libraries[f.abspath]>>,
                       libraries |-> a.libraries, bad |-> a.bad,
                       created |-> a.created, abs |-> a.abs]
                 ELSE IF b.ret
                 THEN [handle |-> <<b.libraries[g.abspath]>>,
                       libraries |-> b.libraries, bad |-> a.bad,
                       created |-> a.created \o b.created, abs |-> b.abs]
                 ELSE [handle |-> <<>>, libraries |-> a.libraries,
                       bad |-> a.bad, created |-> a.created, abs |-> a.abs]

\* ExecutableFile *Library::get(name): handle is <<>> for NULL
get(name, parses) ==
    LET f == findLibrary(name)
    IN  IF ~f.found
        THEN [handle |-> <<>>, libraries |-> m_libraries,
              bad |-> m_badLibraries, created |-> <<>>, abs |-> NoCall]
        ELSE LET a == addLibraryAbs(f.abspath, parses)
             IN  IF ~a.ret
                 THEN [handle |-> <<>>, libraries |-> a.libraries,
                       bad |-> a.bad, created |-> a.created, abs |-> a.abs]
                 ELSE IF f.abspath \notin DOMAIN a.libraries
                 THEN [handle |-> <<>>, libraries |-> a.libraries,
                       bad |-> a.bad, created |-> a.created, abs |-> a.abs]
                 ELSE [handle |-> <<a.libraries[f.abspath]>>,
                       libraries |-> a.libraries, bad |-> a.bad,
                       created |-> a.created, abs |-> a.abs]

\* reladdr with the image base subtracted: pc - (LoadBase + ImageBase).
reladdrParenthesised(pc, LoadBase, ImageBase) ==
    U64Sub(pc, U64Add(LoadBase, ImageBase))

\* uint64_t reladdr = pc - mi->LoadBase + mi->ImageBase
reladdr(pc, LoadBase, ImageBase) == U64Add(U64Sub(pc, LoadBase), ImageBase)

\* bool Library::getInfo(mi, pc, file, line, func); found is the verdict of
\* ExecutableFile::getInfo.  query: what was passed to ExecutableFile::getInfo
getInfo(mi, pc, parses, found) ==
    IF mi.null
    THEN [ret |-> FALSE, query |-> <<>>,
          g |-> [handle |-> <<>>, libraries |-> m_libraries,
                 bad |-> m_badLibraries, created |-> <<>>, abs |-> NoCall]]
    ELSE LET g == get(mi.Name, parses)
         IN  IF g.handle = <<>>
             THEN [ret |-> FALSE, query |-> <<>>, g |-> g]
             ELSE [ret |-> found,
                   query |-> <<reladdr(pc, mi.LoadBase, mi.ImageBase)>>,
                   g |-> g]

\* bool Library::print(modName, loadBase, imageBase, pc, out, file, line, func)
\* out: the pieces streamed to ss, or <<>> when out is not assigned
print(modName, loadBase, imageBase, pc, file, line, func, parses, found) ==
    LET g == get(modName, parses)
    IN  IF g.handle = <<>>
        THEN [ret |-> FALSE, query |-> <<>>, g |-> g, out |-> <<>>]
        ELSE IF ~found
        THEN [ret |-> FALSE, query |-> <<reladdr(pc, loadBase, imageBase)>>,
              g |-> g, out |-> <<>>]
        ELSE [ret |-> TRUE, query |-> <<reladdr(pc, loadBase, imageBase)>>,
              g |-> g,
              out |-> (IF file THEN <<"source">> ELSE <<>>)
                      \o (IF line THEN <<":", "ln">> ELSE <<>>)
                      \o (IF func THEN <<" - ", "function">> ELSE <<>>)]

\* bool Library::print(mi, pc, out, file, line, func)
printMi(mi, pc, file, line, func, parses, found) ==
    IF mi.null
    THEN [ret |-> FALSE, query |-> <<>>,
          g |-> [handle |-> <<>>, libraries |-> m_libraries,
                 bad |-> m_badLibraries, created |-> <<>>, abs |-> NoCall],
          out |-> <<>>]
    ELSE print(mi.Name, mi.LoadBase, mi.ImageBase, pc, file, line, func,
               parses, found)

----------------------------------------------------------------------------
(* The calls made on a Library and the files they find.                    *)

Str1(c) == <<c>>

PathStrings == {<<"a">>, <<"b">>, <<"a", ":", "b">>, <<"b", ":">>}

NameSet == {<<"x">>, <<"y">>}

DirSet == {<<>>, <<"a">>, <<"b">>}

AbsPathSet == {<<"a", "/", "x">>, <<"b", "/", "x">>, <<"a", "/", "y">>}

PathUniverse == {d \o <<"/">> \o n : d \in DirSet, n \in NameSet} \cup AbsPathSet

FileSystems == {{<<"a", "/", "x">>, <<"b", "/", "x">>, <<"b", "/", "y">>},
                {<<"b", "/", "x">>, <<"/", "y">>}}

NullMi == [null |-> TRUE, Name |-> <<>>, LoadBase |-> Zero64,
           ImageBase |-> Zero64]

Mi(name, loadBase, imageBase) ==
    [null |-> FALSE, Name |-> name, LoadBase |-> loadBase,
     ImageBase |-> imageBase]

MiSet == {NullMi,
          Mi(<<"x">>, U64(0, 0, 0, \h1000), U64(0, 0, \h0040, 0)),
          Mi(<<"y">>, U64(\hFFFF, \hFFFF, \hFFFF, 0), U64(0, 0, 2, 0))}

LibPcSet == {U64(0, 0, 0, \h1050), U64(0, 0, 0, \h0FFF)}

PrintFlagSet == {<<TRUE, TRUE, TRUE>>, <<FALSE, TRUE, FALSE>>}

\* the verdict of ExecutableFile::getInfo, when the call reached it
Oracle(r, found) == IF r.query = <<>> THEN <<>> ELSE <<found>>

\* The verdicts are those of calls that are made: a parser that is not called
\* gives none (parses is FALSE), nor does a query that is not made.
Parsed(r, parses) == parses => r.created # <<>>
Queried(r, found) == found => r.query # <<>>

Count(seq, x) == Cardinality({i \in 1..Len(seq) : seq[i] = x})

\* The state of the Library after a call, and the record of the call.
Commit(op, args, ret, r, query, out) ==
    /\ m_libraries' = r.libraries
    /\ m_badLibraries' = r.bad
    /\ createCalls' = [q \in PathUniverse |->
                         createCalls[q] + Count(r.created, q)]
    /\ firstOutcome' =
         IF r.abs.called /\ firstOutcome[r.abs.path] = "none"
         THEN [firstOutcome EXCEPT
                 ![r.abs.path] = IF r.abs.ret THEN "ok" ELSE "fail"]
         ELSE firstOutcome
    /\ parseFailed' =
         IF r.created # <<>> /\ ~r.abs.ret
         THEN parseFailed \cup {r.created[i] : i \in 1..Len(r.created)}
         ELSE parseFailed
    /\ lastCall' = [op |-> op, args |-> args, ret |-> ret,
                    created |-> r.created, abs |-> r.abs, query |-> query,
                    out |-> out]
    /\ UNCHANGED <<m_libpath, files>>

\* void Library::setPath(s)
setPath(s) ==
    /\ m_libpath' = m_libpath \o setPathLoop(s, 0)
    /\ lastCall' = [op |-> "setPath", args |-> [s |-> s], ret |-> <<>>,
                    created |-> <<>>, abs |-> NoCall, query |-> <<>>,
                    out |-> <<>>]
    /\ UNCHANGED <<m_libraries, m_badLibraries, files, createCalls,
                   firstOutcome, parseFailed>>

DoSetPath ==
    \E s \in PathStrings :
        /\ Len(m_libpath) + Len(setPathLoop(s, 0)) <= MaxDirs
        /\ setPath(s)

\* setPath on every string of up to MaxStrLen characters, colons included
MaxStrLen == 3
MaxPathLen == 4

PathInputs == UNION {[1..n -> {"a", ":"}] : n \in 0..MaxStrLen}

PathSetPath ==
    \E s \in PathInputs :
        /\ Len(m_libpath) + Len(setPathLoop(s, 0)) <= MaxPathLen
        /\ setPath(s)

DoFindLibrary ==
    \E libName \in NameSet :
        LET f == findLibrary(libName)
        IN  /\ lastCall' = [op |-> "findLibrary", args |-> [name |-> libName],
                            ret |-> IF f.found THEN <<f.abspath>> ELSE <<>>,
                            created |-> <<>>, abs |-> NoCall, query |-> <<>>,
                            out |-> <<>>]
            /\ UNCHANGED <<m_libpath, m_libraries, m_badLibraries, files,
                           createCalls, firstOutcome, parseFailed>>

DoAddLibrary ==
    \E libName \in NameSet, parses \in BOOLEAN :
        LET r == addLibrary(libName, parses)
        IN  /\ Parsed(r, parses)
            /\ Commit("addLibrary", [name |-> libName], <<r.ret>>, r, <<>>, <<>>)

DoAddLibraryAbs ==
    \E libName \in AbsPathSet, parses \in BOOLEAN :
        LET r == addLibraryAbs(libName, parses)
        IN  /\ Parsed(r, parses)
            /\ Commit("addLibraryAbs", [name |-> libName], <<r.ret>>, r, <<>>,
                   <<>>)

DoGet ==
    \E name \in NameSet, parses \in BOOLEAN :
        LET r == get(name, parses)
        IN  /\ Parsed(r, parses)
            /\ Commit("get", [name |-> name], r.handle, r, <<>>, <<>>)

DoGetInfo ==
    \E mi \in MiSet, pc \in LibPcSet, parses \in BOOLEAN, found \in BOOLEAN :
        LET r == getInfo(mi, pc, parses, found)
        IN  /\ Parsed(r.g, parses)
            /\ Queried(r, found)
            /\ Commit("getInfo",
                   [mi |-> mi, pc |-> pc, oracle |-> Oracle(r, found)],
                   <<r.ret>>, r.g, r.query, <<>>)

DoPrint ==
    \E mi \in MiSet \ {NullMi}, pc \in LibPcSet, fl \in PrintFlagSet,
       parses \in BOOLEAN, found \in BOOLEAN :
        LET r == print(mi.Name, mi.LoadBase, mi.ImageBase, pc,
                       fl[1], fl[2], fl[3], parses, found)
        IN  /\ Parsed(r.g, parses)
            /\ Queried(r, found)
            /\ Commit("print",
                   [mi |-> mi, pc |-> pc, oracle |-> Oracle(r, found)],
                   <<r.ret>>, r.g, r.query, r.out)

DoPrintMi ==
    \E mi \in MiSet, pc \in LibPcSet, parses \in BOOLEAN, found \in BOOLEAN :
        LET r == printMi(mi, pc, TRUE, TRUE, TRUE, parses, found)
        IN  /\ Parsed(r.g, parses)
            /\ Queried(r, found)
            /\ Commit("printMi",
                   [mi |-> mi, pc |-> pc, oracle |-> Oracle(r, found)],
                   <<r.ret>>, r.g, r.query, r.out)

\* Library::~Library: deletes every object m_libraries holds.  No member
\* function is called on the Library afterwards.
Destroy ==
    /\ ~destroyed
    /\ destroyed' = TRUE
    /\ deleted' = {m_libraries[q] : q \in DOMAIN m_libraries}
    /\ lastCall' = [op |-> "~Library", args |-> <<>>, ret |-> <<>>,
                    created |-> <<>>, abs |-> NoCall, query |-> <<>>,
                    out |-> <<>>]
    /\ UNCHANGED <<m_libpath, m_libraries, m_badLibraries, files,
                   createCalls, firstOutcome, parseFailed>>

NoLibCall == [op |-> "none", args |-> <<>>, ret |-> <<>>, created |-> <<>>,
              abs |-> NoCall, query |-> <<>>, out |-> <<>>]

\* Library::Library: no paths, both maps empty
LibraryConstructed ==
    /\ m_libpath = <<>>
    /\ m_libraries = [q \in {} |-> <<>>]
    /\ m_badLibraries = {}
    /\ createCalls = [q \in PathUniverse |-> 0]
    /\ firstOutcome = [q \in PathUniverse |-> "none"]
    /\ parseFailed = {}
    /\ lastCall = NoLibCall
    /\ destroyed = FALSE
    /\ deleted = {}

----------------------------------------------------------------------------
(* Calls of the pure functions decideTracing and translatePid.             *)

PureAddrSet == {Zero64,
                U64(0, 0, 0, \h0FFF), U64(0, 0, 0, \h1000),
                U64(0, 0, 0, \h1FFF), U64(0, 0, 0, \h2000),
                U64(0, 0, 0, \h3FFF), U64(0, 0, 0, \h4000),
                U64(0, 0, 3, \hFFFF), U64(0, 0, 4, 0),
                U64(0, 0, \h7FFD, \hDFFF), U64(0, 0, \h7FFD, \hE000),
                U64(0, 0, \h7FFD, \hFFFF), U64(0, 0, \h7FFE, 0),
                U64(0, 1, 0, \h2000), U64(\hFFFF, \hFFFF, \hFFFF, \hE000)}

PureSpSet == {U64(0, 0, 0, \h2000), U64(0, 0, 0, \h3FF0),
              U64(0, 0, \h7FFD, \hE010), U64(0, 1, 0, \h3000)}

PureCatchAboveSet == {Zero64, U64(0, 0, 0, \h1000), U64(0, 0, 0, \h2000)}

KernelStartSet == {DefaultKernelStart, U64(0, 0, \hC000, 0), U64(0, 1, 0, 0),
                   Zero64}

PidSet == {Zero64, U64(0, 0, 0, 7), U64(0, \h1234, \h5678, \h9ABC)}

PurePcSet == {Zero64, U64(0, 0, \h7FFF, \hFFFF), DefaultKernelStart,
              U64(0, 0, \h8000, 1), U64(0, 0, \hBFFF, \hFFFF),
              U64(0, 0, \hC000, 0), U64(0, 1, 0, 0),
              U64(\hFFFF, \hFFFF, \hFFFF, \hFFFF)}

PureCalls ==
    {[fn |-> "decideTracing", sp |-> sp, addr |-> addr] :
        sp \in PureSpSet, addr \in PureAddrSet}
    \cup {[fn |-> "translatePid", pid |-> pid, pc |-> pc] :
        pid \in PidSet, pc \in PurePcSet}

CallDecideTracing ==
    /\ pureCall.fn = "decideTracing"
    /\ pureRet = <<>>
    /\ pureRet' = <<decideTracing(pureCall.sp, pureCall.addr)>>
    /\ UNCHANGED <<pureCall, tracerVars, libVars, concVars, dtorVars, KernelStart>>

CallTranslatePid ==
    /\ pureCall.fn = "translatePid"
    /\ pureRet = <<>>
    /\ pureRet' = <<translatePid(pureCall.pid, pureCall.pc)>>
    /\ UNCHANGED <<pureCall, tracerVars, libVars, concVars, dtorVars, KernelStart>>

NoPureCall == [fn |-> "none"]

----------------------------------------------------------------------------
(* Two contexts calling addLibraryAbs on one Library.  The function takes  *)
(* no lock, so the contexts interleave between its statements: the lookup  *)
(* in m_libraries, the lookup in m_badLibraries, the call of the parser,   *)
(* and the insertion of the result.                                        *)

Contexts == {1, 2}
MaxConcCalls == 2

Idle == [pc |-> "idle", libName |-> <<>>, exec |-> <<>>, ret |-> <<>>,
         calls |-> 0]

NoContext ==
    /\ ctx = [c \in Contexts |-> Idle]
    /\ allocated = {}

\* a context enters addLibraryAbs(libName)
ConcCall(c) ==
    /\ ctx[c].pc = "idle"
    /\ ctx[c].calls < MaxConcCalls
    /\ \E libName \in AbsPathSet :
          ctx' = [ctx EXCEPT ![c] = [pc |-> "lookupLibraries",
                                     libName |-> libName, exec |-> <<>>,
                                     ret |-> <<>>, calls |-> @.calls + 1]]
    /\ UNCHANGED <<libVars, allocated>>

\* if (m_libraries.find(libName) != m_libraries.end()) return true;
ConcLookupLibraries(c) ==
    /\ ctx[c].pc = "lookupLibraries"
    /\ ctx' = IF ctx[c].libName \in DOMAIN m_libraries
              THEN [ctx EXCEPT ![c].pc = "idle", ![c].ret = <<TRUE>>]
              ELSE [ctx EXCEPT ![c].pc = "lookupBad"]
    /\ UNCHANGED <<libVars, allocated>>

\* if (m_badLibraries.find(libName) != m_badLibraries.end()) return false;
ConcLookupBad(c) ==
    /\ ctx[c].pc = "lookupBad"
    /\ ctx' = IF ctx[c].libName \in m_badLibraries
              THEN [ctx EXCEPT ![c].pc = "idle", ![c].ret = <<FALSE>>]
              ELSE [ctx EXCEPT ![c].pc = "create"]
    /\ UNCHANGED <<libVars, allocated>>

\* exec = s2etools::ExecutableFile::create(ProgFile);
ConcCreate(c) ==
    /\ ctx[c].pc = "create"
    /\ \E parses \in BOOLEAN :
          LET exec == ExecutableFileCreate(ctx[c].libName, parses)
          IN  /\ ctx' = [ctx EXCEPT ![c].pc = "store", ![c].exec = exec]
              /\ allocated' = allocated \cup {exec[i] : i \in 1..Len(exec)}
    /\ createCalls' = [createCalls EXCEPT ![ctx[c].libName] = @ + 1]
    /\ UNCHANGED <<m_libpath, m_libraries, m_badLibraries, files,
                   firstOutcome, parseFailed, lastCall>>

\* if (!exec) { m_badLibraries.insert(ProgFile); return false; }
\* m_libraries[libName] = exec; return true;
ConcStore(c) ==
    /\ ctx[c].pc = "store"
    /\ IF ctx[c].exec = <<>>
       THEN /\ m_badLibraries' = m_badLibraries \cup {ctx[c].libName}
            /\ m_libraries' = m_libraries
            /\ ctx' = [ctx EXCEPT ![c].pc = "idle", ![c].ret = <<FALSE>>,
                                  ![c].exec = <<>>]
       ELSE /\ m_libraries' =
                 [q \in DOMAIN m_libraries \cup {ctx[c].libName} |->
                     IF q = ctx[c].libName THEN ctx[c].exec[1]
                     ELSE m_libraries[q]]
            /\ m_badLibraries' = m_badLibraries
            /\ ctx' = [ctx EXCEPT ![c].pc = "idle", ![c].ret = <<TRUE>>,
                                  ![c].exec = <<>>]
    /\ UNCHANGED <<m_libpath, files, createCalls, firstOutcome, parseFailed,
                   lastCall, allocated>>

----------------------------------------------------------------------------
(* Specifications                                                          *)

\* The tracer plugin driven by the signals of the core plugin.
TracerInit ==
    /\ TracerConstructed
    /\ LibraryConstructed
    /\ files = {}
    /\ KernelStart = DefaultKernelStart
    /\ pureCall = NoPureCall
    /\ pureRet = <<>>
    /\ NoContext

TracerNext ==
    \/ Initialize /\ UNCHANGED <<libVars, pureVars, concVars, dtorVars, KernelStart>>
    \/ EmitTimer /\ UNCHANGED <<libVars, pureVars, concVars, dtorVars, KernelStart>>
    \/ EmitDataMemoryAccess /\ UNCHANGED <<libVars, pureVars, concVars, dtorVars, KernelStart>>
    \/ EmitTlbMiss /\ UNCHANGED <<libVars, pureVars, concVars, dtorVars, KernelStart>>
    \/ EmitPageFault /\ UNCHANGED <<libVars, pureVars, concVars, dtorVars, KernelStart>>

TracerSpec == TracerInit /\ [][TracerNext]_vars

\* A Library called sequentially.
LibInit ==
    /\ TracerConstructed
    /\ LibraryConstructed
    /\ files \in FileSystems
    /\ KernelStart = DefaultKernelStart
    /\ pureCall = NoPureCall
    /\ pureRet = <<>>
    /\ NoContext

LibNext ==
    \/ ~destroyed /\ DoSetPath
          /\ UNCHANGED <<tracerVars, pureVars, concVars, dtorVars,
                         KernelStart>>
    \/ ~destroyed /\ DoFindLibrary
          /\ UNCHANGED <<tracerVars, pureVars, concVars, dtorVars,
                         KernelStart>>
    \/ ~destroyed /\ DoAddLibrary
          /\ UNCHANGED <<tracerVars, pureVars, concVars, dtorVars,
                         KernelStart>>
    \/ ~destroyed /\ DoAddLibraryAbs
          /\ UNCHANGED <<tracerVars, pureVars, concVars, dtorVars,
                         KernelStart>>
    \/ ~destroyed /\ DoGet
          /\ UNCHANGED <<tracerVars, pureVars, concVars, dtorVars,
                         KernelStart>>
    \/ ~destroyed /\ DoGetInfo
          /\ UNCHANGED <<tracerVars, pureVars, concVars, dtorVars,
                         KernelStart>>
    \/ ~destroyed /\ DoPrint
          /\ UNCHANGED <<tracerVars, pureVars, concVars, dtorVars,
                         KernelStart>>
    \/ ~destroyed /\ DoPrintMi
          /\ UNCHANGED <<tracerVars, pureVars, concVars, dtorVars,
                         KernelStart>>
    \/ Destroy /\ UNCHANGED <<tracerVars, pureVars, concVars, KernelStart>>

LibSpec == LibInit /\ [][LibNext]_vars

\* One call of a pure function, on any configuration.
PureInit ==
    /\ initialized = TRUE
    /\ m_monitorStack \in BOOLEAN
    /\ m_catchAbove \in PureCatchAboveSet
    /\ m_timeTrigger = 0
    /\ m_elapsedTics = 0
    /\ m_monitorMemory = TRUE
    /\ m_monitorPageFaults = FALSE
    /\ m_monitorTlbMisses = FALSE
    /\ timerConnected = FALSE
    /\ connMem = 1
    /\ connPF = 0
    /\ connTlb = 0
    /\ sinkCount = 0
    /\ written = <<>>
    /\ lastEvent = NoEvent
    /\ enableCalls = 1
    /\ timerCalls = 0
    /\ tickEmits = 0
    /\ LibraryConstructed
    /\ files = {}
    /\ KernelStart \in KernelStartSet
    /\ pureCall \in PureCalls
    /\ pureRet = <<>>
    /\ NoContext

PureNext == CallDecideTracing \/ CallTranslatePid

PureSpec == PureInit /\ [][PureNext]_vars

PathInit == LibInit

PathNext ==
    ~destroyed /\ PathSetPath
        /\ UNCHANGED <<tracerVars, pureVars, concVars, dtorVars, KernelStart>>

PathSpec == PathInit /\ [][PathNext]_vars

ConcInit == LibInit

ConcNext ==
    \/ \E c \in Contexts :
          ConcCall(c) /\ UNCHANGED <<tracerVars, pureVars, dtorVars, KernelStart>>
    \/ \E c \in Contexts :
          ConcLookupLibraries(c)
              /\ UNCHANGED <<tracerVars, pureVars, dtorVars, KernelStart>>
    \/ \E c \in Contexts :
          ConcLookupBad(c) /\ UNCHANGED <<tracerVars, pureVars, dtorVars, KernelStart>>
    \/ \E c \in Contexts :
          ConcCreate(c) /\ UNCHANGED <<tracerVars, pureVars, dtorVars, KernelStart>>
    \/ \E c \in Contexts :
          ConcStore(c) /\ UNCHANGED <<tracerVars, pureVars, dtorVars, KernelStart>>

ConcSpec == ConcInit /\ [][ConcNext]_vars

Init == TracerInit

Next == TracerNext

Spec == TracerSpec

----------------------------------------------------------------------------
(* Properties of the Activation Gate (TracerSpec)                          *)

\* The gate of a tracer configured with timeTrigger = N > 0 is Pending from
\* initialize until the (N+1)th call of onTimer.
Pending ==
    initialized /\ m_timeTrigger > 0 /\ timerCalls <= m_timeTrigger

\* C1: with timeTrigger = N > 0, after each of the first N calls of onTimer
\* the gate is Pending: enableTracing has not run, no event callback is
\* connected and the timer is still subscribed.  The (N+1)th call runs
\* enableTracing once and disconnects the timer, so onTimer is never called
\* again, enableTracing never runs twice and each callback is connected at
\* most once.  With N = 0 enableTracing has run once when initialize returns
\* and the timer is never subscribed.
C1_ActivationGate ==
    /\ ~initialized =>
          enableCalls = 0 /\ ~timerConnected /\ timerCalls = 0
    /\ (initialized /\ m_timeTrigger > 0 /\ timerCalls <= m_timeTrigger) =>
          /\ enableCalls = 0
          /\ connMem = 0 /\ connPF = 0 /\ connTlb = 0
          /\ timerConnected
    /\ (initialized /\ m_timeTrigger > 0 /\ timerCalls > m_timeTrigger) =>
          /\ timerCalls = m_timeTrigger + 1
          /\ enableCalls = 1
          /\ ~timerConnected
    /\ (initialized /\ m_timeTrigger = 0) =>
          enableCalls = 1 /\ ~timerConnected /\ timerCalls = 0
    /\ enableCalls = 1 =>
          /\ connMem = BoolInt(m_monitorMemory)
          /\ connPF = BoolInt(m_monitorPageFaults)
          /\ connTlb = BoolInt(m_monitorTlbMisses)

\* The gate has opened on the (N+1)th call, N = MaxTrigger, and the core
\* plugin has ticked since.
C1_Witness ==
    /\ initialized /\ m_timeTrigger = MaxTrigger
    /\ timerCalls = m_timeTrigger + 1
    /\ tickEmits = MaxTicks
    /\ enableCalls = 1 /\ connMem = 1 /\ ~timerConnected

\* C7: while the gate is Pending no memory access, TLB miss or page fault
\* callback is connected to the core plugin and nothing has been written to
\* the sink, whatever ticks and events the core plugin has raised.
C7_NothingBeforeActivation ==
    Pending =>
        /\ connMem = 0 /\ connPF = 0 /\ connTlb = 0
        /\ sinkCount = 0 /\ written = <<>>

\* The gate is Pending, a tick has been counted and a memory access that the
\* tracer is configured to monitor has been raised.
C7_Witness ==
    /\ Pending /\ timerCalls >= 1
    /\ m_monitorMemory /\ lastEvent.kind = "mem" /\ lastEvent.ev.address.isConst
    /\ lastEvent.ev.value.isConst
    /\ sinkCount = 0

----------------------------------------------------------------------------
(* Properties of the Trace Recorder (TracerSpec)                           *)

tracerConfig == <<initialized, m_monitorStack, m_catchAbove, m_timeTrigger,
                  m_elapsedTics, m_monitorMemory, m_monitorPageFaults,
                  m_monitorTlbMisses, timerConnected, connMem, connPF,
                  connTlb, enableCalls, timerCalls, tickEmits>>

\* The step delivers a signal of the given kind to a connected callback.
Delivers(kind) ==
    /\ lastEvent'.seq # lastEvent.seq
    /\ lastEvent'.kind = kind
    /\ lastEvent'.slots >= 1

\* C6: a delivered memory access writes exactly one record when its address
\* and its value are concrete and decideTracing accepts the address with the
\* state's stack pointer, and no record otherwise; the step changes nothing
\* but the sink.
C6_MemoryEventRecorded ==
    [][Delivers("mem") =>
        LET ev == lastEvent'.ev
            accepted == /\ ev.address.isConst
                        /\ ev.value.isConst
                        /\ decideTracing(ev.sp, ev.address.val)
        IN  /\ Len(written') = IF accepted THEN 1 ELSE 0
            /\ sinkCount' = sinkCount + Len(written')
            /\ UNCHANGED tracerConfig]_vars

\* A concrete memory access in the stack pointer's region was delivered to a
\* tracer that monitors the stack, and one record was written.
C6_Witness ==
    /\ lastEvent.kind = "mem" /\ lastEvent.slots = 1
    /\ m_monitorStack
    /\ Len(written) = 1 /\ sinkCount >= 1

\* C8: every delivered TLB miss and page fault writes exactly one record
\* {pc, address, isWrite} of its own kind, whatever the address, the floor,
\* monitorStack and the stack pointer.
C8_FaultEventsRecorded ==
    [][(Delivers("tlb") \/ Delivers("pf")) =>
        LET ev == lastEvent'.ev
        IN  /\ written' = << [kind |-> IF ev.kind = "tlb" THEN "TRACE_TLBMISS"
                                       ELSE "TRACE_PAGEFAULT",
                              state |-> StateOf(ev),
                              pc |-> ev.pc, address |-> ev.addr,
                              isWrite |-> ev.isWrite] >>
            /\ sinkCount' = sinkCount + 1
            /\ UNCHANGED tracerConfig]_vars

\* A TLB miss below the floor and outside the stack pointer's region was
\* delivered to a tracer that monitors the stack, and was written.
C8_Witness ==
    /\ lastEvent.kind = "tlb" /\ lastEvent.slots = 1
    /\ m_monitorStack
    /\ U64Lt(lastEvent.ev.addr, m_catchAbove)
    /\ U64And(lastEvent.ev.addr, StackMask) # U64And(lastEvent.ev.sp, StackMask)
    /\ Len(written) = 1

----------------------------------------------------------------------------
(* Properties of the Event Filter and of translatePid (PureSpec)           *)

\* ~0x1FFF as a uint64_t: the mask of an 8 KiB-aligned 8 KiB region
Mask8K == U64(\hFFFF, \hFFFF, \hFFFF, \hE000)

Returned(fn) == pureCall.fn = fn /\ pureRet # <<>>

\* C2: with monitorStack set and the address at or above the floor,
\* decideTracing accepts exactly when the address and the stack pointer lie
\* in the same 8 KiB-aligned 8 KiB region.
C2_StackRule8K ==
    (Returned("decideTracing") /\ m_monitorStack
        /\ ~U64Lt(pureCall.addr, m_catchAbove)) =>
        pureRet[1] = (U64And(pureCall.addr, Mask8K) = U64And(pureCall.sp, Mask8K))

\* C3: decideTracing rejects every address below the floor, whatever the
\* stack pointer and monitorStack, and with monitorStack off it accepts
\* every address at or above the floor.
C3_AddressFloor ==
    Returned("decideTracing") =>
        /\ U64Lt(pureCall.addr, m_catchAbove) => pureRet[1] = FALSE
        /\ (~m_monitorStack /\ ~U64Lt(pureCall.addr, m_catchAbove)) =>
              pureRet[1] = TRUE

\* An address below the floor was rejected although monitorStack is set and
\* the stack test of decideTracing would have accepted it.
C3_Witness ==
    /\ Returned("decideTracing") /\ m_monitorStack
    /\ U64Lt(pureCall.addr, m_catchAbove)
    /\ U64And(pureCall.addr, StackMask) = U64And(pureCall.sp, StackMask)
    /\ pureRet[1] = FALSE

One64 == U64(0, 0, 0, 1)

\* C10: translatePid returns 0 when pc is at or above KernelStart and pid when
\* pc is below it; KernelStart itself maps to 0 and KernelStart - 1 to pid.
C10_OwnerTranslation ==
    Returned("translatePid") =>
        /\ (pureCall.pc = KernelStart \/ U64Lt(KernelStart, pureCall.pc)) =>
              pureRet[1] = Zero64
        /\ U64Lt(pureCall.pc, KernelStart) => pureRet[1] = pureCall.pid
        /\ (U64Add(pureCall.pc, One64) = KernelStart /\ KernelStart # Zero64) =>
              pureRet[1] = pureCall.pid

\* pid 7 at the default boundary 0x80000000 was translated to 0.
C10_Witness ==
    /\ Returned("translatePid")
    /\ KernelStart = DefaultKernelStart
    /\ pureCall.pc = DefaultKernelStart
    /\ pureCall.pid = U64(0, 0, 0, 7)
    /\ pureRet[1] = Zero64

----------------------------------------------------------------------------
(* Properties of the Module Cache and the Address Resolver (LibSpec)       *)

\* C4: ExecutableFile::create is called at most once for any absolute path,
\* and every call of addLibraryAbs for a path, made directly or by
\* addLibrary, get, getInfo or print, returns what the first call for that
\* path returned.
C4_ParseAtMostOnce ==
    /\ \A q \in PathUniverse : createCalls[q] <= 1
    /\ lastCall.abs.called =>
          lastCall.abs.ret = (firstOutcome[lastCall.abs.path] = "ok")

\* addLibraryAbs was called again for a path that had failed to parse, and
\* failed without a call of the parser.
C4_Witness ==
    /\ lastCall.op = "addLibraryAbs"
    /\ lastCall.abs.path \in files
    /\ lastCall.created = <<>>
    /\ lastCall.ret = <<FALSE>>
    /\ createCalls[lastCall.abs.path] = 1

\* the call returned absent: NULL from get, false from getInfo and print
Absent(c) == IF c.op = "get" THEN c.ret = <<>> ELSE c.ret = <<FALSE>>

\* C5: a path that failed to parse is in m_badLibraries from then on, and
\* every later get of a name that findLibrary resolves to it (also the get of
\* getInfo and print) returns absent without a call of the parser.
C5_NegativeCaching ==
    [][\A q \in parseFailed :
        /\ q \in m_badLibraries
        /\ q \in m_badLibraries'
        /\ (/\ lastCall'.op \in {"get", "getInfo", "print", "printMi"}
            /\ lastCall'.abs.called
            /\ lastCall'.abs.path = q) =>
              Absent(lastCall') /\ lastCall'.created = <<>>]_vars

\* get resolved a name to an openable file that had failed to parse, and
\* returned NULL without a call of the parser.
C5_Witness ==
    /\ lastCall.op = "get"
    /\ lastCall.abs.called
    /\ lastCall.abs.path \in parseFailed
    /\ lastCall.abs.path \in files
    /\ lastCall.created = <<>>
    /\ lastCall.ret = <<>>

\* C9: whenever getInfo or print holds a parsed module, it queries
\* ExecutableFile::getInfo, with a relative address r such that
\* r + LoadBase = pc + ImageBase modulo 2^64, whatever pc is, and returns the
\* verdict of that query.
C9_ResolverArithmetic ==
    lastCall.op \in {"getInfo", "print", "printMi"} =>
        /\ (lastCall.abs.called /\ lastCall.abs.ret) = (lastCall.query # <<>>)
        /\ lastCall.query # <<>> =>
              LET mi == lastCall.args.mi
                  pc == lastCall.args.pc
              IN  /\ U64Add(lastCall.query[1], mi.LoadBase)
                        = U64Add(pc, mi.ImageBase)
                  /\ lastCall.ret = lastCall.args.oracle
                  /\ (/\ mi.LoadBase = U64(0, 0, 0, \h1000)
                      /\ mi.ImageBase = U64(0, 0, \h0040, 0)
                      /\ pc = U64(0, 0, 0, \h1050)) =>
                        lastCall.query[1] = U64(0, 0, \h0040, \h0050)
        /\ lastCall.query = <<>> => lastCall.ret = <<FALSE>>

\* getInfo queried the parser for a pc below the load base: the relative
\* address wrapped around.
C9_Witness ==
    /\ lastCall.op = "getInfo"
    /\ lastCall.query # <<>>
    /\ U64Lt(lastCall.args.pc, lastCall.args.mi.LoadBase)
    /\ lastCall.query[1] = U64(0, 0, \h003F, \hFFFF)
    /\ lastCall.ret = <<TRUE>>

----------------------------------------------------------------------------
(* Properties of Path Search (LibSpec)                                     *)

\* the entries of m_libpath under which the name can be opened
Openable(name) ==
    {i \in 1..Len(m_libpath) : (m_libpath[i] \o <<"/">> \o name) \in files}

\* what Path Search gave the call: <<>> for absent, or the path in a tuple
Resolved(c) ==
    IF c.op = "findLibrary" THEN c.ret
    ELSE IF c.abs.called THEN <<c.abs.path>> ELSE <<>>

\* C11: findLibrary, called directly or by addLibrary or get, returns
\* directory + "/" + name for the earliest entry of m_libpath under which the
\* name can be opened, and absent exactly when there is none; findLibrary
\* itself changes neither m_libpath nor the two maps.
C11_PathSearchFirstMatch ==
    [][lastCall'.op \in {"findLibrary", "addLibrary", "get"} =>
        LET name == lastCall'.args.name
            hits == Openable(name)
        IN  /\ hits = {} => Resolved(lastCall') = <<>>
            /\ hits # {} =>
                  \E i \in hits :
                      /\ \A j \in hits : i <= j
                      /\ Resolved(lastCall')
                            = << m_libpath[i] \o <<"/">> \o name >>
            /\ m_libpath' = m_libpath
            /\ lastCall'.op = "findLibrary" =>
                  UNCHANGED <<m_libraries, m_badLibraries>>]_vars

\* The name can be opened under both entries of m_libpath and findLibrary
\* returned the candidate of the first.
C11_Witness ==
    /\ lastCall.op = "findLibrary"
    /\ Len(m_libpath) = 2 /\ m_libpath[1] # m_libpath[2]
    /\ Openable(lastCall.args.name) = {1, 2}
    /\ lastCall.ret = << m_libpath[1] \o <<"/">> \o lastCall.args.name >>

----------------------------------------------------------------------------
(* Properties of get and getInfo on unresolvable modules (LibSpec)         *)

GetOps == {"get", "getInfo", "print", "printMi"}

\* the call reached Library::get, and with which name
ReachesGet(c) == c.op = "get" \/ (c.op \in GetOps /\ ~c.args.mi.null)
GetName(c) == IF c.op = "get" THEN c.args.name ELSE c.args.mi.Name

\* C12: when no entry of m_libpath holds an openable candidate for the name,
\* get returns NULL and getInfo and print return false, the parser and the
\* symbol query are not called, and m_libraries and m_badLibraries are left
\* as they were; when the path resolves and addLibraryAbs succeeds, get
\* returns the handle m_libraries holds for that absolute path.
C12_UnresolvableModule ==
    [][ReachesGet(lastCall') =>
        /\ Openable(GetName(lastCall')) = {} =>
              /\ Absent(lastCall')
              /\ lastCall'.created = <<>>
              /\ lastCall'.query = <<>>
              /\ ~lastCall'.abs.called
              /\ UNCHANGED <<m_libraries, m_badLibraries>>
        /\ (lastCall'.op = "get" /\ lastCall'.abs.called
              /\ lastCall'.abs.ret) =>
              /\ lastCall'.abs.path \in DOMAIN m_libraries'
              /\ lastCall'.ret = << m_libraries'[lastCall'.abs.path] >>]_vars

\* getInfo was asked for a module that no entry of a non-empty m_libpath
\* holds, with something already in the cache, and returned false.
C12_Witness ==
    /\ lastCall.op = "getInfo" /\ ~lastCall.args.mi.null
    /\ Len(m_libpath) >= 1
    /\ Openable(lastCall.args.mi.Name) = {}
    /\ DOMAIN m_libraries # {}
    /\ lastCall.ret = <<FALSE>>

----------------------------------------------------------------------------
(* Properties of the Module Cache used from two contexts (ConcSpec)        *)

\* the object is in m_libraries or still in the hands of a caller that has
\* not stored it yet
Held(h) ==
    \/ h[1] \in DOMAIN m_libraries /\ m_libraries[h[1]] = h
    \/ \E c \in Contexts : ctx[c].exec = <<h>>

\* C13: with two contexts calling addLibraryAbs for the same path, the
\* parser is called at most once for the path, every object it returned is
\* the one m_libraries holds (none overwritten or leaked), the path is in at
\* most one of the two caches, and callers that have returned for the same
\* path have the same result.
C13_ConcurrentCacheUse ==
    /\ \A q \in PathUniverse : createCalls[q] <= 1
    /\ \A h \in allocated : Held(h)
    /\ DOMAIN m_libraries \cap m_badLibraries = {}
    /\ \A c, d \in Contexts :
          (ctx[c].libName = ctx[d].libName
             /\ ctx[c].ret # <<>> /\ ctx[d].ret # <<>>) =>
          ctx[c].ret = ctx[d].ret

----------------------------------------------------------------------------
(* Properties of the memory record (TracerSpec)                            *)

IsU64(v) == v \in [1..4 -> 0..(Limb - 1)]

\* C14: every record a delivered memory access writes is of the memory
\* record kind and is written for the state the event came from; its pc is
\* that state's program counter, its address and value are the event's
\* concrete address and value as 64-bit values, its size is the least
\* number of bytes that hold the value's bit width, and its flags are
\* isWrite + 2 * isIO, one of 0, 1, 2, 3.
C14_MemoryRecordContents ==
    [][Delivers("mem") =>
        LET ev == lastEvent'.ev
        IN  \A i \in 1..Len(written') :
               LET e == written'[i]
               IN  /\ e.kind = "TRACE_MEMORY"
                   /\ e.state = [sp |-> ev.sp, pc |-> ev.pc]
                   /\ e.pc = ev.pc
                   /\ ev.address.isConst /\ e.address = ev.address.val
                   /\ ev.value.isConst /\ e.value = ev.value.val
                   /\ IsU64(e.address) /\ IsU64(e.value)
                   /\ e.size * 8 >= ev.value.width
                   /\ (e.size - 1) * 8 < ev.value.width
                   /\ e.flags = (IF ev.isWrite THEN 1 ELSE 0)
                                + (IF ev.isIO THEN 2 ELSE 0)
                   /\ e.flags \in 0..3]_vars

\* An I/O write of a 32-bit value was recorded with flags 3 and size 4, at an
\* address wider than the value.
C14_Witness ==
    /\ lastEvent.kind = "mem" /\ lastEvent.slots >= 1
    /\ lastEvent.ev.isWrite /\ lastEvent.ev.isIO
    /\ Len(written) >= 1
    /\ written[1].flags = 3 /\ written[1].size = 4
    /\ written[1].pc = lastEvent.ev.pc

----------------------------------------------------------------------------
(* Properties of the tick counter (TracerSpec)                             *)

\* the gate has a delay and enableTracing has not run
NotYetActive == initialized /\ m_timeTrigger > 0 /\ enableCalls = 0

\* C15 as stated: in every state where the gate is Pending the elapsed-tick
\* counter is below timeTrigger, the gate opening in the call in which the
\* counter reaches timeTrigger.
C15_PendingBelowTrigger ==
    NotYetActive => m_elapsedTics < m_timeTrigger

\* C15 amended: onTimer compares the counter with timeTrigger before it
\* increments it, so the counter counts the calls of onTimer, a Pending gate
\* has a counter of at most timeTrigger (timeTrigger itself included) with
\* the timer still subscribed, and the gate opens in the call that finds the
\* counter equal to timeTrigger and leaves it at timeTrigger + 1.
C15_TickCounter ==
    /\ initialized => m_elapsedTics = timerCalls
    /\ NotYetActive => m_elapsedTics <= m_timeTrigger /\ timerConnected
    /\ (initialized /\ m_timeTrigger > 0 /\ enableCalls # 0) =>
          /\ enableCalls = 1
          /\ m_elapsedTics = m_timeTrigger + 1
          /\ ~timerConnected
    /\ (initialized /\ m_timeTrigger = 0) => m_elapsedTics = 0

\* The gate is Pending with the counter equal to timeTrigger.
C15_Witness ==
    /\ NotYetActive /\ timerConnected
    /\ m_elapsedTics = m_timeTrigger

----------------------------------------------------------------------------
(* Properties of the two caches over a run (LibSpec)                       *)

\* C16: over any sequence of setPath, findLibrary, addLibrary,
\* addLibraryAbs, get, getInfo and print calls no path is in both
\* m_libraries and m_badLibraries, and no step removes an entry of either,
\* moves it to the other or replaces a handle; the destructor, after which
\* nothing is called, deletes exactly the handles m_libraries holds.
C16_CacheMonotone ==
    [][/\ DOMAIN m_libraries \cap m_badLibraries = {}
       /\ DOMAIN m_libraries' \cap m_badLibraries' = {}
       /\ DOMAIN m_libraries \subseteq DOMAIN m_libraries'
       /\ \A q \in DOMAIN m_libraries : m_libraries'[q] = m_libraries[q]
       /\ m_badLibraries \subseteq m_badLibraries'
       /\ ~destroyed => deleted = {}
       /\ destroyed => UNCHANGED vars
       /\ destroyed' =>
             deleted' = {m_libraries'[q] : q \in DOMAIN m_libraries'}]_vars

\* Both caches hold an entry, a path has been parsed, and the Library has
\* then been destroyed.
C16_Witness ==
    /\ DOMAIN m_libraries # {} /\ m_badLibraries # {}
    /\ \E q \in DOMAIN m_libraries : createCalls[q] = 1
    /\ lastCall.op = "~Library"
    /\ destroyed /\ deleted # {}

----------------------------------------------------------------------------
(* Properties of per-kind enabling (TracerSpec)                            *)

\* the monitor flag a record kind is written under
FlagOf(kind) ==
    IF kind = "TRACE_MEMORY" THEN m_monitorMemory
    ELSE IF kind = "TRACE_PAGEFAULT" THEN m_monitorPageFaults
    ELSE m_monitorTlbMisses

\* C17: once enableTracing has run, each of the three callbacks is connected
\* once if its monitor flag is set and not at all otherwise, and before that
\* none is; every record written is of a kind whose flag is set, and with
\* the three flags false nothing is ever written.
C17_PerKindEnabling ==
    /\ connMem \in 0..1 /\ connPF \in 0..1 /\ connTlb \in 0..1
    /\ enableCalls = 0 => connMem = 0 /\ connPF = 0 /\ connTlb = 0
    /\ enableCalls # 0 =>
          /\ connMem = 1 <=> m_monitorMemory
          /\ connPF = 1 <=> m_monitorPageFaults
          /\ connTlb = 1 <=> m_monitorTlbMisses
    /\ \A i \in 1..Len(written) :
          /\ written[i].kind \in {"TRACE_MEMORY", "TRACE_PAGEFAULT",
                                  "TRACE_TLBMISS"}
          /\ FlagOf(written[i].kind)
    /\ lastEvent.slots >= 1 =>
          \/ lastEvent.kind = "mem" /\ m_monitorMemory
          \/ lastEvent.kind = "pf" /\ m_monitorPageFaults
          \/ lastEvent.kind = "tlb" /\ m_monitorTlbMisses
    /\ (~m_monitorMemory /\ ~m_monitorPageFaults /\ ~m_monitorTlbMisses) =>
          sinkCount = 0 /\ written = <<>>

\* With TLB misses monitored and page faults not, a TLB miss has been
\* recorded and the page fault raised after it was delivered to no callback.
C17_Witness ==
    /\ enableCalls = 1
    /\ m_monitorTlbMisses /\ ~m_monitorPageFaults
    /\ lastEvent.kind = "pf" /\ lastEvent.slots = 0
    /\ written = <<>> /\ sinkCount = 1

----------------------------------------------------------------------------
(* Properties of get on a candidate that fails to parse (LibSpec)          *)

\* the first openable candidate for the name, in m_libpath order
FirstCandidate(name) ==
    LET hits == Openable(name)
        i == CHOOSE k \in hits : \A j \in hits : k <= j
    IN  m_libpath[i] \o <<"/">> \o name

\* C18: a get (also the get of getInfo and print) of a name with an openable
\* candidate hands only the first candidate in m_libpath order to
\* addLibraryAbs and to the parser; if that candidate fails to parse in this
\* call or failed before, get returns NULL, and nothing of a later directory
\* is parsed, cached or returned.
C18_NoFallThrough ==
    [][(ReachesGet(lastCall') /\ Openable(GetName(lastCall')) # {}) =>
        LET p == FirstCandidate(GetName(lastCall'))
        IN  /\ lastCall'.abs.called /\ lastCall'.abs.path = p
            /\ \A i \in 1..Len(lastCall'.created) : lastCall'.created[i] = p
            /\ p \in parseFailed' => Absent(lastCall')
            /\ (lastCall'.op = "get" /\ lastCall'.ret # <<>>) =>
                  lastCall'.ret[1][1] = p
            /\ DOMAIN m_libraries' \subseteq DOMAIN m_libraries \cup {p}
            /\ m_badLibraries' \subseteq m_badLibraries \cup {p}]_vars

\* get returned NULL for a name whose candidate in the first directory had
\* failed to parse, while the candidate in the second directory was parsed
\* and cached.
C18_Witness ==
    /\ lastCall.op = "get" /\ lastCall.ret = <<>>
    /\ Len(m_libpath) = 2 /\ m_libpath[1] # m_libpath[2]
    /\ Openable(lastCall.args.name) = {1, 2}
    /\ (m_libpath[1] \o <<"/">> \o lastCall.args.name) \in parseFailed
    /\ (m_libpath[2] \o <<"/">> \o lastCall.args.name) \in DOMAIN m_libraries

----------------------------------------------------------------------------
(* Properties of setPath (PathSpec)                                        *)

\* the entries joined by colons
RECURSIVE Join(_)
Join(paths) ==
    IF Len(paths) = 0 THEN <<>>
    ELSE IF Len(paths) = 1 THEN paths[1]
    ELSE paths[1] \o <<":">> \o Join(Tail(paths))

\* C19: setPath(s) with k colons in s leaves the entries m_libpath had in
\* place and in order, and appends k + 1 entries after them: the pieces of s
\* between its colons, left to right, the empty ones included (for the empty
\* string, a leading or a trailing colon and two colons in a row); the call
\* returns for every string.
C19_PathListConstruction ==
    [][lastCall'.op = "setPath" =>
        LET s == lastCall'.args.s
            k == Count(s, ":")
            n == Len(m_libpath)
            added == SubSeq(m_libpath', n + 1, Len(m_libpath'))
        IN  /\ Len(m_libpath') = n + k + 1
            /\ SubSeq(m_libpath', 1, n) = m_libpath
            /\ \A i \in 1..Len(added) : Count(added[i], ":") = 0
            /\ Join(added) = s
            /\ lastCall'.ret = <<>>]_vars

\* setPath(":a:") on a list of one entry appended an empty entry, "a" and
\* another empty entry after it.
C19_Witness ==
    /\ lastCall.op = "setPath"
    /\ lastCall.args.s = <<":", "a", ":">>
    /\ m_libpath = << <<"a", "a">>, <<>>, <<"a">>, <<>> >>

====
